---- MODULE Spec2Model ----
(***************************************************************************)
(* Model of the auth0_cleanup Lambda (src/lambda_src/index.js): the        *)
(* parameter-store loader, the per-invocation handler and the CSV ledger   *)
(* writer, together with the three remote services they talk to (SSM       *)
(* Parameter Store, the Auth0 Management API and one S3 object).           *)
(*                                                                         *)
(* Text is modelled as a sequence of one-character strings, so that        *)
(* trimStart, toLowerCase, startsWith, replace and join are computed the   *)
(* way the JavaScript computes them.  The empty sequence stands for both   *)
(* the empty string and undefined: the code only ever tests such values    *)
(* for truthiness (!v, v || d), which treats the two alike.                *)
(***************************************************************************)
EXTENDS Integers, Sequences, FiniteSets, TLC

VARIABLES
    env,          \* [Procs -> [EnvKeys -> text]]   process.env of each Node process
    paramsLoaded, \* [Procs -> BOOLEAN]              module-level latch, index.js:109
    pc,           \* [Procs -> control point of the running invocation]
    frame,        \* [Procs -> locals of the running handler invocation]
    trace,        \* [Procs -> requests issued by the current/last invocation]
    response,     \* [Procs -> envelope returned by the last invocation]
    ssmHier,      \* Parameter Store: pages of the hierarchical listing
    ssmFlat,      \* Parameter Store: flat-named parameters, [EXPECTED_KEYS -> text]
    directory,    \* Auth0: the set of accounts that exist
    s3obj,        \* S3: the ledger object, [exists, body]
    clock,        \* wall clock read by new Date()
    invocations   \* number of handler invocations started so far

vars == <<env, paramsLoaded, pc, frame, trace, response,
          ssmHier, ssmFlat, directory, s3obj, clock, invocations>>

----------------------------------------------------------------------------
(* Bounds of the model *)

MaxInvocations == 2

----------------------------------------------------------------------------
(* Text helpers (JavaScript String methods) *)

NL == "\n"
BOM == "BOM"   \* the single character U+FEFF

\* ECMAScript WhiteSpace and LineTerminator characters occurring in the model
WhiteSpace == {" ", "\t", NL, "\r", BOM}

UpperLower ==
    {<<"A", "a">>, <<"B", "b">>, <<"C", "c">>, <<"D", "d">>, <<"E", "e">>, <<"F", "f">>,
     <<"G", "g">>, <<"H", "h">>, <<"I", "i">>, <<"J", "j">>, <<"K", "k">>, <<"L", "l">>,
     <<"M", "m">>, <<"N", "n">>, <<"O", "o">>, <<"P", "p">>, <<"Q", "q">>, <<"R", "r">>,
     <<"S", "s">>, <<"T", "t">>, <<"U", "u">>, <<"V", "v">>, <<"W", "w">>, <<"X", "x">>,
     <<"Y", "y">>, <<"Z", "z">>}

\* String.prototype.toLowerCase, per character
LowerChar(c) ==
    IF \E pr \in UpperLower : pr[1] = c
    THEN (CHOOSE pr \in UpperLower : pr[1] = c)[2]
    ELSE c

ToLowerCase(s) == [i \in 1..Len(s) |-> LowerChar(s[i])]

\* String.prototype.trimStart
RECURSIVE TrimStart(_)
TrimStart(s) ==
    IF s # <<>> /\ Head(s) \in WhiteSpace THEN TrimStart(Tail(s)) ELSE s

\* String.prototype.trim
RECURSIVE TrimEnd(_)
TrimEnd(s) ==
    IF s # <<>> /\ s[Len(s)] \in WhiteSpace
    THEN TrimEnd(SubSeq(s, 1, Len(s) - 1)) ELSE s

Trim(s) == TrimEnd(TrimStart(s))

\* String.prototype.endsWith
EndsWith(s, suf) ==
    Len(s) >= Len(suf) /\ SubSeq(s, Len(s) - Len(suf) + 1, Len(s)) = suf

\* String.prototype.startsWith
StartsWith(s, pre) ==
    Len(s) >= Len(pre) /\ SubSeq(s, 1, Len(pre)) = pre

\* s.split(sep)[0]: the text before the first separator
SplitFirst(s, sep) ==
    LET at == {i \in 1..Len(s) : s[i] = sep}
    IN IF at = {} THEN s
       ELSE SubSeq(s, 1, (CHOOSE i \in at : \A j \in at : i <= j) - 1)

\* s.replace(/^\ufeff?/, ""): drop one leading U+FEFF
StripBom(s) == IF s # <<>> /\ Head(s) = BOM THEN Tail(s) ELSE s

\* Array.prototype.join with separator sep, over an array of texts
RECURSIVE Join(_, _)
Join(parts, sep) ==
    IF parts = <<>> THEN <<>>
    ELSE IF Len(parts) = 1 THEN parts[1]
    ELSE parts[1] \o sep \o Join(Tail(parts), sep)

\* v ? true : false for text values
Truthy(v) == v # <<>>

\* a || b for text values
Or(a, b) == IF Truthy(a) THEN a ELSE b

----------------------------------------------------------------------------
(* Program constants *)

EXPECTED_KEYS ==
    <<"S3_BUCKET", "S3_KEY", "AUTH0_DOMAIN", "AUTH0_AUDIENCE",
      "AUTH0_CLIENT_ID", "AUTH0_CLIENT_SECRET", "SSOID">>

ExpectedKeySet == {EXPECTED_KEYS[i] : i \in 1..Len(EXPECTED_KEYS)}

DEFAULT_PARAM_PREFIX ==
    <<"/", "a", "u", "t", "h", "0", "-", "c", "l", "e", "a", "n", "u", "p", "/">>

FLAT_PREFIX == "auth0_cleanup_"

CSV_HEADER ==
    <<
       "s", "s", "o", "i", "d", ",", "d", "e", "a", "c", "t", "i", "v", "a", "t", "i",
       "o", "n", "_", "f", "l", "a", "g", ",", "l", "a", "s", "t", "_", "u", "p", "d",
       "a", "t", "e", "_", "t", "i", "m", "e", "s", "t", "a", "m", "p", ",", "u", "s",
       "e", "r", "_", "i", "d", ",", "e", "m", "a", "i", "l", ",", "n", "a", "m", "e",
       ",", "p", "r", "o", "v", "i", "d", "e", "r", "s", ",", "c", "o", "n", "n", "e",
       "c", "t", "i", "o", "n", "s", ",", "c", "r", "e", "a", "t", "e", "d", "_", "a",
       "t", ",", "l", "a", "s", "t", "_", "l", "o", "g", "i", "n", ",", "l", "o", "g",
       "i", "n", "s", "_", "c", "o", "u", "n", "t", ",", "d", "e", "l", "e", "t", "e",
       "d", "_", "b", "y",
       NL>>

PER_PAGE == 50

\* Number.prototype.toString for the small non-negative integers of the model
DigitChar(d) == <<"0", "1", "2", "3", "4", "5", "6", "7", "8", "9">>[d + 1]

RECURSIVE NumToText(_)
NumToText(n) ==
    IF n < 10 THEN <<DigitChar(n)>>
    ELSE NumToText(n \div 10) \o <<DigitChar(n % 10)>>

\* new Date().toISOString(): a text without comma, quote or line break
ToISOString(t) == <<"T">> \o NumToText(t)

----------------------------------------------------------------------------
(* Row formatting, index.js:281-337 *)

QUOTE == "\""

RECURSIVE DoubleQuotes(_)
DoubleQuotes(s) ==
    IF s = <<>> THEN <<>>
    ELSE (IF Head(s) = QUOTE THEN <<QUOTE, QUOTE>> ELSE <<Head(s)>>)
         \o DoubleQuotes(Tail(s))

csvEscape(s) ==
    IF \E i \in 1..Len(s) : s[i] \in {QUOTE, ",", NL}
    THEN <<QUOTE>> \o DoubleQuotes(s) \o <<QUOTE>>
    ELSE s

\* a logins_count is [type, finite, value]; the result is already rendered
\* the way String(v) renders it inside csvEscape
safeNum(n) ==
    IF n.type = "number" /\ n.finite THEN NumToText(n.value) ELSE <<>>

buildCsvRow(ssoid, user, deletedBy, now) ==
    LET providers   == Join([i \in 1..Len(user.identities) |->
                                user.identities[i].provider], <<";">>)
        connections == Join([i \in 1..Len(user.identities) |->
                                user.identities[i].connection], <<";">>)
        fields == << ssoid,
                     <<"Y">>,
                     ToISOString(now),
                     user.user_id,
                     user.email,
                     Or(user.name, Or(user.nickname, user.username)),
                     providers,
                     connections,
                     user.created_at,
                     user.last_login,
                     safeNum(user.logins_count),
                     deletedBy >>
    IN Join([i \in 1..Len(fields) |-> csvEscape(fields[i])], <<",">>) \o <<NL>>

----------------------------------------------------------------------------
(* Ledger writer, index.js:255-279 *)

HeaderLine == SplitFirst(CSV_HEADER, NL)

\* Variant: the whole text is compared instead of its beginning
HasHeaderWholeText(existing) ==
    Truthy(existing) /\ ToLowerCase(TrimStart(existing)) = HeaderLine

\* Variant: leading whitespace is not dropped before the comparison
HasHeaderNoTrim(existing) ==
    Truthy(existing) /\ StartsWith(ToLowerCase(existing), HeaderLine)

\* the negation of the condition of line 267
HasHeader(existing) ==
    Truthy(existing)
    /\ StartsWith(ToLowerCase(TrimStart(existing)), HeaderLine)

\* Variant: the header is added only in front of existing content
NextContentHeaderOnlyIfContent(existing, rows) ==
    (IF Truthy(existing) /\ ~HasHeader(existing)
     THEN CSV_HEADER \o StripBom(existing)
     ELSE existing)
    \o Join(rows, <<>>)

\* Variant: the content read is not carried over
NextContentOverwrite(existing, rows) == CSV_HEADER \o Join(rows, <<>>)

\* lines 266-271: the body handed to PutObject
NextContent(existing, rows) ==
    (IF ~HasHeader(existing)
     THEN CSV_HEADER \o (IF Truthy(existing) /\ Len(existing) > 0
                         THEN StripBom(existing) ELSE <<>>)
     ELSE existing)
    \o Join(rows, <<>>)

----------------------------------------------------------------------------
(* The world the function runs in *)

Procs == {"p1", "p2"}   \* Lambda execution contexts (Node processes)

EnvKeys == ExpectedKeySet \cup
           {"PARAM_PREFIX", "AWS_LAMBDA_FUNCTION_NAME", "DELETED_BY"}

EmptyEnv == [k \in EnvKeys |-> <<>>]

NoCount == [type |-> "undefined", finite |-> FALSE, value |-> 0]

\* Accounts of the identity service.  link is identities[*].user_id and
\* meta is app_metadata.ssoid, the two fields the handler searches by.
U1 == [user_id |-> <<"u", "1">>, email |-> <<"e", ",", "1">>, name |-> <<>>,
       nickname |-> <<"n">>, username |-> <<>>,
       identities |-> << [provider |-> <<"g">>, connection |-> <<"c">>,
                          user_id |-> <<"a">>] >>,
       created_at |-> <<"d">>, last_login |-> <<>>,
       logins_count |-> [type |-> "number", finite |-> TRUE, value |-> 12],
       meta |-> <<>>]
U2 == [user_id |-> <<"u", "2">>, email |-> <<>>, name |-> <<"m">>,
       nickname |-> <<>>, username |-> <<>>,
       identities |-> << [provider |-> <<"g">>, connection |-> <<"c">>,
                          user_id |-> <<"a">>],
                         [provider |-> <<"f">>, connection |-> <<"k">>,
                          user_id |-> <<"z">>] >>,
       created_at |-> <<>>, last_login |-> <<>>,
       logins_count |-> [type |-> "number", finite |-> FALSE, value |-> 0],
       meta |-> <<>>]
U3 == [user_id |-> <<"u", "3">>, email |-> <<>>, name |-> <<>>,
       nickname |-> <<>>, username |-> <<"w">>,
       identities |-> <<>>,
       created_at |-> <<>>, last_login |-> <<>>,
       logins_count |-> NoCount,
       meta |-> <<"a">>]
U4 == [user_id |-> <<"u", "4">>, email |-> <<>>, name |-> <<>>,
       nickname |-> <<>>, username |-> <<>>,
       identities |-> << [provider |-> <<"g">>, connection |-> <<"c">>,
                          user_id |-> <<"y">>] >>,
       created_at |-> <<>>, last_login |-> <<>>,
       logins_count |-> NoCount,
       meta |-> <<"b">>]

AllUsers == <<U1, U2, U3, U4>>

\* The ids an event may carry (<<>>: the parameter is absent)
EventIds == {<<>>, <<"a">>, <<"b">>}

FunctionNames == {<<>>, <<"f", "n">>}

\* Parameter names of the hierarchical listing are kept as their path
\* segments: <<"auth0-cleanup", "sub", "S3_KEY">> is /auth0-cleanup/sub/S3_KEY
Param(name, value) == [Name |-> name, Value |-> value]

HierListing ==
    << << Param(<<"auth0-cleanup", "AUTH0_DOMAIN">>, <<"h", "d">>),
          Param(<<"auth0-cleanup", "AUTH0_CLIENT_ID">>, <<"h", "c">>),
          Param(<<"auth0-cleanup", "sub", "AUTH0_CLIENT_ID">>, <<"h", "x">>),
          Param(<<"auth0-cleanup", "S3_BUCKET">>, <<"h", "b">>),
          Param(<<"auth0-cleanup", "OTHER">>, <<"h", "o">>) >>,
       << Param(<<"auth0-cleanup", "sub", "AUTH0_DOMAIN">>, <<"h", "y">>),
          Param(<<"auth0-cleanup", "AUTH0_CLIENT_SECRET">>, <<"h", "s">>) >> >>

HierListings == {<<>>, HierListing}

NoFlat == [k \in ExpectedKeySet |-> <<>>]

FlatParams ==
    [NoFlat EXCEPT !["AUTH0_DOMAIN"] = <<"f", "d">>,
                   !["AUTH0_CLIENT_ID"] = <<"f", "c">>,
                   !["AUTH0_CLIENT_SECRET"] = <<"f", "s">>,
                   !["SSOID"] = <<"b">>]

FlatStores == {NoFlat, FlatParams}

\* Environments a process may be started with
PresetEnvs ==
    { EmptyEnv,
      [EmptyEnv EXCEPT !["AUTH0_DOMAIN"] = <<"e", "d">>,
                       !["PARAM_PREFIX"] =
                           <<" ">> \o SubSeq(DEFAULT_PARAM_PREFIX, 1,
                                             Len(DEFAULT_PARAM_PREFIX) - 1)],
      [EmptyEnv EXCEPT !["PARAM_PREFIX"] = <<"p">>,
                       !["S3_BUCKET"] = <<"e", "b">>,
                       !["DELETED_BY"] = <<"o", "p">>] }

NoResponse == [statusCode |-> 0]

NoFrame ==
    [ event        |-> [path |-> <<>>, query |-> <<>>],
      functionName |-> <<>>,
      prefix       |-> <<>>,
      nextToken    |-> 0,
      domain       |-> <<>>,
      audience     |-> <<>>,
      bucket       |-> <<>>,
      key          |-> <<>>,
      ssoid        |-> <<>>,
      users        |-> <<>>,
      i            |-> 0,
      results      |-> <<>>,
      csvRows      |-> <<>>,
      deletedBy    |-> <<>>,
      existing     |-> <<>>,
      nextContent  |-> <<>> ]

NoObject == [exists |-> FALSE, body |-> <<>>]

----------------------------------------------------------------------------
(* Requests and responses *)

\* op: the request; arg: its text argument; res: its outcome;
\* out: the account ids a search returned
Req(op, arg, res, out) == [op |-> op, arg |-> arg, res |-> res, out |-> out]

Log(p, op, arg, res) ==
    [trace EXCEPT ![p] = Append(@, Req(op, arg, res, <<>>))]

LogSearch(p, op, arg, res, users) ==
    [trace EXCEPT ![p] =
        Append(@, Req(op, arg, res, [i \in 1..Len(users) |-> users[i].user_id]))]

\* index.js:348-354.  The body is kept as the object handed to
\* JSON.stringify, which is one-to-one on the bodies the handler builds.
Response(statusCode, body) ==
    [ statusCode |-> statusCode,
      headers    |-> [content_type |-> "application/json"],
      body       |-> body ]

\* Variant: the error body also carries a message field
ErrorResponseWithMessage(message) ==
    Response(500, [message |-> "Unhandled error", error |-> message])

\* index.js:101-104: the handler's catch-all
ErrorResponse(message) == Response(500, [error |-> message])

\* Variant: no match is reported as not found
NoMatchResponse404(ssoid) ==
    Response(404, [message |-> "Cannot find user", ssoid |-> ssoid,
                   results |-> <<>>])

\* index.js:59-63
NoMatchResponse(ssoid) ==
    Response(200, [message |-> "Cannot find user", ssoid |-> ssoid,
                   results |-> <<>>])

\* index.js:95-100
CompleteResponse(ssoid, results) ==
    Response(200, [message |-> "Delete attempt complete", ssoid |-> ssoid,
                   count |-> Len(results), results |-> results])

\* Variant: the query parameter is looked at before the path parameter
getSsoidQueryFirst(event, e) ==
    Or(event.query, Or(event.path, Or(e["SSOID"], <<"REPLACE_WITH_SSOID">>)))

\* index.js:309-313
getSsoid(event, e) ==
    Or(event.path, Or(event.query, Or(e["SSOID"], <<"REPLACE_WITH_SSOID">>)))

\* index.js:315-322
getDeletedBy(functionName, e) ==
    Or(functionName,
       Or(e["AWS_LAMBDA_FUNCTION_NAME"], Or(e["DELETED_BY"], <<"local">>)))

----------------------------------------------------------------------------
(* Parameter loader, index.js:109-158 *)

\* Variant: the latch is not consulted
NeverLoaded(p) == FALSE

\* line 112
ParamsAlreadyLoaded(p) == paramsLoaded[p]

\* line 128: the segment after the last "/"
ShortName(name) == name[Len(name)]

\* Variant: a listed parameter replaces the value a key already has
RECURSIVE ApplyHierarchicalOverwrite(_, _)
ApplyHierarchicalOverwrite(e, params) ==
    IF params = <<>> THEN e
    ELSE LET key == ShortName(Head(params).Name)
             e1  == IF key \in ExpectedKeySet
                    THEN [e EXCEPT ![key] = Head(params).Value]
                    ELSE e
         IN ApplyHierarchicalOverwrite(e1, Tail(params))

\* lines 127-132: the for loop over one page of parameters
RECURSIVE ApplyHierarchical(_, _)
ApplyHierarchical(e, params) ==
    IF params = <<>> THEN e
    ELSE LET key == ShortName(Head(params).Name)
             e1  == IF key \in ExpectedKeySet /\ ~Truthy(e[key])
                    THEN [e EXCEPT ![key] = Head(params).Value]
                    ELSE e
         IN ApplyHierarchical(e1, Tail(params))

\* line 138
Missing(e) == SelectSeq(EXPECTED_KEYS, LAMBDA k : ~Truthy(e[k]))

\* line 140: a flat name is kept as the pair <<FLAT_PREFIX, KEY>>
FlatNames(missing) == [i \in 1..Len(missing) |-> <<FLAT_PREFIX, missing[i]>>]

\* line 146: Name.replace(FLAT_PREFIX, "") removes the first occurrence
RECURSIVE RemoveFirst(_, _)
RemoveFirst(name, tok) ==
    IF name = <<>> THEN <<>>
    ELSE IF Head(name) = tok THEN Tail(name)
    ELSE <<Head(name)>> \o RemoveFirst(Tail(name), tok)

\* lines 145-150
RECURSIVE ApplyFlat(_, _)
ApplyFlat(e, params) ==
    IF params = <<>> THEN e
    ELSE LET rest == RemoveFirst(Head(params).Name, FLAT_PREFIX)
             key  == IF Len(rest) = 1 THEN rest[1] ELSE "?"
             e1   == IF key \in ExpectedKeySet /\ ~Truthy(e[key])
                     THEN [e EXCEPT ![key] = Head(params).Value]
                     ELSE e
         IN ApplyFlat(e1, Tail(params))

\* Parameter Store: the page of GetParametersByPath(Path, NextToken).
\* token 0 is "no NextToken"; the listing lives under DEFAULT_PARAM_PREFIX.
PathPage(path, token) ==
    LET n == IF token = 0 THEN 1 ELSE token
    IN IF path = DEFAULT_PARAM_PREFIX /\ n <= Len(ssmHier)
       THEN [Parameters |-> ssmHier[n],
             NextToken  |-> IF n < Len(ssmHier) THEN n + 1 ELSE 0]
       ELSE [Parameters |-> <<>>, NextToken |-> 0]

\* Parameter Store: GetParameters(Names) returns the names that exist
FlatParameters(names) ==
    LET found == SelectSeq(names, LAMBDA nm : Truthy(ssmFlat[nm[2]]))
    IN [i \in 1..Len(found) |-> Param(found[i], ssmFlat[found[i][2]])]

\* Variant: the exception leaves the handler, no response is returned
ThrowUncaught(p, message) ==
    /\ response' = response
    /\ pc' = [pc EXCEPT ![p] = "rejected"]

\* A request of any service failed and the exception reached line 101
Throw(p, message) ==
    /\ response' = [response EXCEPT ![p] = ErrorResponse(message)]
    /\ pc' = [pc EXCEPT ![p] = "idle"]

\* Variant: the latch is set even when a request failed
LoadFailureLatches(p) == paramsLoaded' = [paramsLoaded EXCEPT ![p] = TRUE]

\* lines 121, 141: a rejected ssm.send leaves loadParamsIntoEnv before
\* line 157 is reached
LoadFailure(p) == paramsLoaded' = paramsLoaded

\* lines 137-139, 157: after the hierarchical phase
AfterHierarchical(p, e) ==
    IF Missing(e) # <<>>
    THEN /\ pc' = [pc EXCEPT ![p] = "ssm_flat"]
         /\ paramsLoaded' = paramsLoaded
    ELSE /\ pc' = [pc EXCEPT ![p] = "config"]
         /\ paramsLoaded' = [paramsLoaded EXCEPT ![p] = TRUE]

\* The platform delivers an event to an idle process: index.js:31
Invoke(p) ==
    /\ pc[p] = "idle"
    /\ invocations < MaxInvocations
    /\ \E path \in EventIds, query \in EventIds, fn \in FunctionNames :
          frame' = [frame EXCEPT ![p] =
                       [NoFrame EXCEPT !.event = [path |-> path, query |-> query],
                                       !.functionName = fn]]
    /\ trace' = [trace EXCEPT ![p] = <<>>]
    /\ response' = [response EXCEPT ![p] = NoResponse]
    /\ pc' = [pc EXCEPT ![p] = "load"]
    /\ invocations' = invocations + 1
    /\ clock' = clock + 1
    /\ UNCHANGED <<env, paramsLoaded, ssmHier, ssmFlat, directory, s3obj>>

\* index.js:111-118: entry of loadParamsIntoEnv up to its first await
LoadParamsIntoEnv(p) ==
    /\ pc[p] = "load"
    /\ IF ParamsAlreadyLoaded(p)
       THEN /\ pc' = [pc EXCEPT ![p] = "config"]
            /\ UNCHANGED <<frame, paramsLoaded>>
       ELSE LET prefix   == Trim(Or(env[p]["PARAM_PREFIX"], DEFAULT_PARAM_PREFIX))
                wantPath == StartsWith(prefix, <<"/">>)
            IN /\ frame' = [frame EXCEPT ![p].prefix = prefix,
                                         ![p].nextToken = 0]
               /\ IF wantPath
                  THEN /\ pc' = [pc EXCEPT ![p] = "ssm_path"]
                       /\ UNCHANGED paramsLoaded
                  ELSE AfterHierarchical(p, env[p])
    /\ UNCHANGED <<env, trace, response, ssmHier, ssmFlat, directory, s3obj,
                   clock, invocations>>

\* index.js:120-135: one GetParametersByPath request and its for loop
GetParametersByPath(p) ==
    /\ pc[p] = "ssm_path"
    /\ LET prefix == frame[p].prefix
           path   == IF EndsWith(prefix, <<"/">>) THEN prefix
                     ELSE prefix \o <<"/">>
       IN \/ /\ trace' = Log(p, "ssm:GetParametersByPath", path, "error")
             /\ Throw(p, "ssm error")
             /\ LoadFailure(p)
             /\ UNCHANGED <<env, frame>>
          \/ LET resp == PathPage(path, frame[p].nextToken)
                 e    == ApplyHierarchical(env[p], resp.Parameters)
             IN /\ trace' = Log(p, "ssm:GetParametersByPath", path, "ok")
                /\ env' = [env EXCEPT ![p] = e]
                /\ frame' = [frame EXCEPT ![p].nextToken = resp.NextToken]
                /\ response' = response
                /\ IF resp.NextToken # 0
                   THEN UNCHANGED <<pc, paramsLoaded>>
                   ELSE AfterHierarchical(p, e)
    /\ UNCHANGED <<ssmHier, ssmFlat, directory, s3obj, clock, invocations>>

\* index.js:138-157: the flat-name GetParameters request
GetParameters(p) ==
    /\ pc[p] = "ssm_flat"
    /\ LET names == FlatNames(Missing(env[p]))
       IN \/ /\ trace' = Log(p, "ssm:GetParameters", <<>>, "error")
             /\ Throw(p, "ssm error")
             /\ LoadFailure(p)
             /\ env' = env
          \/ /\ trace' = Log(p, "ssm:GetParameters", <<>>, "ok")
             /\ env' = [env EXCEPT ![p] = ApplyFlat(@, FlatParameters(names))]
             /\ paramsLoaded' = [paramsLoaded EXCEPT ![p] = TRUE]
             /\ pc' = [pc EXCEPT ![p] = "config"]
             /\ response' = response
    /\ UNCHANGED <<frame, ssmHier, ssmFlat, directory, s3obj, clock, invocations>>

----------------------------------------------------------------------------
(* Handler, index.js:31-105 *)

\* Variant: only the domain is required before the token is asked for
MissingRequiredDomainOnly(e) ==
    SelectSeq(<<"AUTH0_DOMAIN">>, LAMBDA k : ~Truthy(e[k]))

\* index.js:324-328, as the first required key that is missing
\* (<<>> when mustEnv throws for none of them)
MissingRequired(e) ==
    SelectSeq(<<"AUTH0_DOMAIN", "AUTH0_CLIENT_ID", "AUTH0_CLIENT_SECRET">>,
              LAMBDA k : ~Truthy(e[k]))

\* line 38.  Domains of the model are bare host names, on which
\* stripProtocol is the identity.
DerivedAudience(domain) ==
    <<"h", "t", "t", "p", "s", ":", "/", "/">> \o domain
    \o <<"/", "a", "p", "i", "/", "v", "2", "/">>

DefaultS3Key == <<"o", "u", "t", "p", "u", "t", "/", "d", "e", "l", "e", "t", "e", "d",
                  "_", "u", "s", "e", "r", "s", ".", "c", "s", "v">>

\* index.js:36-48: configuration is resolved and the token request prepared
ResolveConfig(p) ==
    /\ pc[p] = "config"
    /\ LET e == env[p]
       IN IF MissingRequired(e) # <<>>
          THEN /\ Throw(p, <<"Missing", Head(MissingRequired(e))>>)
               /\ frame' = frame
          ELSE /\ frame' = [frame EXCEPT
                     ![p].domain   = e["AUTH0_DOMAIN"],
                     ![p].audience = Or(e["AUTH0_AUDIENCE"],
                                        DerivedAudience(e["AUTH0_DOMAIN"])),
                     ![p].bucket   = e["S3_BUCKET"],
                     ![p].key      = Or(e["S3_KEY"], DefaultS3Key)]
               /\ pc' = [pc EXCEPT ![p] = "token"]
               /\ response' = response
    /\ UNCHANGED <<env, paramsLoaded, trace, ssmHier, ssmFlat, directory, s3obj,
                   clock, invocations>>

\* index.js:162-203 and line 51: POST /oauth/token
GetMgmtToken(p) ==
    /\ pc[p] = "token"
    /\ \/ /\ trace' = Log(p, "auth0:token", <<>>, "error")
          /\ Throw(p, "Token HTTP error")
          /\ frame' = frame
       \/ /\ trace' = Log(p, "auth0:token", <<>>, "ok")
          /\ frame' = [frame EXCEPT
                          ![p].ssoid = getSsoid(frame[p].event, env[p])]
          /\ pc' = [pc EXCEPT ![p] = "search1"]
          /\ response' = response
    /\ UNCHANGED <<env, paramsLoaded, ssmHier, ssmFlat, directory, s3obj,
                   clock, invocations>>

\* Auth0: the accounts a query matches, at most PER_PAGE of them
Matches(u, field, value) ==
    IF field = "identities.user_id"
    THEN \E i \in 1..Len(u.identities) : u.identities[i].user_id = value
    ELSE u.meta = value

SearchResult(field, value) ==
    LET hits == SelectSeq(AllUsers,
                          LAMBDA u : u \in directory /\ Matches(u, field, value))
    IN SubSeq(hits, 1, IF Len(hits) < PER_PAGE THEN Len(hits) ELSE PER_PAGE)

\* the query issued first (line 54) and the fallback query (line 56)
FirstQuery == "identities.user_id"
SecondQuery == "app_metadata.ssoid"

\* lines 65-68: the deletion loop is entered
EnterLoop(p, users) ==
    /\ frame' = [frame EXCEPT
                    ![p].users     = users,
                    ![p].i         = 1,
                    ![p].results   = <<>>,
                    ![p].csvRows   = <<>>,
                    ![p].deletedBy = getDeletedBy(frame[p].functionName, env[p])]
    /\ pc' = [pc EXCEPT ![p] = "delete"]
    /\ response' = response

\* Variant: the fallback is taken whatever the result
AlwaysNoUsers(users) == Len(users) >= 0

\* lines 55 and 59
NoUsers(users) == Len(users) = 0

\* Variant: a failed search raises instead of answering []
SearchThrowsOnFailure(ok) == ~ok

\* lines 235-238: the catch of searchUsersByQuery returns [], so no
\* failure of the request leaves the function as an exception
SearchThrows(ok) == FALSE

\* lines 54-55 with searchUsersByQuery (205-239): a failed search yields []
SearchByIdentity(p) ==
    /\ pc[p] = "search1"
    /\ \E ok \in BOOLEAN :
          LET users == IF ok THEN SearchResult(FirstQuery, frame[p].ssoid)
                       ELSE <<>>
          IN /\ trace' = LogSearch(p, FirstQuery, frame[p].ssoid,
                                   IF ~ok THEN "error"
                                   ELSE IF users = <<>> THEN "empty" ELSE "found",
                                   users)
             /\ IF SearchThrows(ok)
                THEN Throw(p, "User search failed HTTP error") /\ frame' = frame
                ELSE IF NoUsers(users)
                THEN /\ pc' = [pc EXCEPT ![p] = "search2"]
                     /\ UNCHANGED <<frame, response>>
                ELSE EnterLoop(p, users)
    /\ UNCHANGED <<env, paramsLoaded, ssmHier, ssmFlat, directory, s3obj,
                   clock, invocations>>

\* lines 56-63
SearchByMetadata(p) ==
    /\ pc[p] = "search2"
    /\ \E ok \in BOOLEAN :
          LET users == IF ok THEN SearchResult(SecondQuery, frame[p].ssoid)
                       ELSE <<>>
          IN /\ trace' = LogSearch(p, SecondQuery, frame[p].ssoid,
                                   IF ~ok THEN "error"
                                   ELSE IF users = <<>> THEN "empty" ELSE "found",
                                   users)
             /\ IF SearchThrows(ok)
                THEN Throw(p, "User search failed HTTP error") /\ frame' = frame
                ELSE IF NoUsers(users)
                THEN /\ response' = [response EXCEPT ![p] =
                                        NoMatchResponse(frame[p].ssoid)]
                     /\ pc' = [pc EXCEPT ![p] = "idle"]
                     /\ frame' = frame
                ELSE EnterLoop(p, users)
    /\ UNCHANGED <<env, paramsLoaded, ssmHier, ssmFlat, directory, s3obj,
                   clock, invocations>>

\* lines 75-77 and 80: what one deletion adds to results and csvRows
SuccessEntry(userId) == [user_id |-> userId, deleted |-> TRUE]
FailureEntry(userId, message) ==
    [user_id |-> userId, deleted |-> FALSE, error |-> message]

\* Variant: a row is built whether or not the deletion succeeded
RowsAfterAlways(csvRows, ok, row) == Append(csvRows, row)

\* lines 73-81: csvRows after one deletion attempt
RowsAfter(csvRows, ok, row) == IF ok THEN Append(csvRows, row) ELSE csvRows

\* Variant: the number of rows is not looked at
ShouldAppendAlways(csvRows, bucket) == Truthy(bucket)

\* Variant: the bucket is not looked at
ShouldAppendAnyBucket(csvRows, bucket) == Len(csvRows) > 0

\* line 85
ShouldAppend(csvRows, bucket) == Len(csvRows) > 0 /\ Truthy(bucket)

\* lines 70-93: one iteration of the loop (DELETE /api/v2/users/<id>), and,
\* after the last one, the decision whether to call the ledger writer
DeleteUser(p) ==
    /\ pc[p] = "delete"
    /\ LET f == frame[p]
           u == f.users[f.i]
       IN \E ok \in BOOLEAN :
          LET results == Append(f.results,
                            IF ok THEN SuccessEntry(u.user_id)
                            ELSE FailureEntry(u.user_id, "Delete failed HTTP error"))
              csvRows == RowsAfter(f.csvRows, ok,
                                   buildCsvRow(f.ssoid, u, f.deletedBy, clock))
          IN /\ trace' = Log(p, "auth0:delete", u.user_id,
                             IF ok THEN "ok" ELSE "error")
             /\ directory' = IF ok THEN directory \ {u} ELSE directory
             /\ frame' = [frame EXCEPT ![p].results = results,
                                       ![p].csvRows = csvRows,
                                       ![p].i = f.i + 1]
             /\ IF f.i < Len(f.users)
                THEN UNCHANGED <<pc, response>>
                ELSE IF ShouldAppend(csvRows, f.bucket)
                THEN /\ pc' = [pc EXCEPT ![p] = "s3get"]
                     /\ response' = response
                ELSE /\ pc' = [pc EXCEPT ![p] = "idle"]
                     /\ response' = [response EXCEPT ![p] =
                                        CompleteResponse(f.ssoid, results)]
    /\ UNCHANGED <<env, paramsLoaded, ssmHier, ssmFlat, s3obj, clock, invocations>>

\* lines 95-100, reached from the ledger writer's return or from line 88
Finish(p) ==
    /\ pc' = [pc EXCEPT ![p] = "idle"]
    /\ response' = [response EXCEPT ![p] =
                       CompleteResponse(frame[p].ssoid, frame[p].results)]

\* Variant: the writer's exception is not caught around line 87
LedgerFailureUncaught(p) == Throw(p, "s3 error")

\* lines 88-90: an exception of appendRowsToCsvInS3 is logged, and the
\* handler goes on to its final return
LedgerFailure(p) == Finish(p)

\* S3: the errors a GetObject can answer with.  An absent key answers
\* NoSuchKey (HTTP 404); the other error stands for any failure that is not
\* a not-found one (access denied, throttling, a broken connection).
NoSuchKeyError == [name |-> "NoSuchKey", Code |-> "NoSuchKey", httpStatusCode |-> 404]
OtherS3Error == [name |-> "AccessDenied", Code |-> "AccessDenied", httpStatusCode |-> 403]

GetObjectErrors == (IF s3obj.exists THEN {} ELSE {NoSuchKeyError}) \cup {OtherS3Error}

\* Variant: every read error is taken for a missing object
AnyErrorIsNotFound(e) == e.httpStatusCode >= 400

\* line 262: the not-found condition
IsNotFound(e) ==
    e.httpStatusCode = 404 \/ e.name = "NoSuchKey" \/ e.Code = "NoSuchKey"

\* index.js:256-271: GetObject and the computation of the next content
S3GetObject(p) ==
    /\ pc[p] = "s3get"
    /\ \/ /\ s3obj.exists
          /\ trace' = Log(p, "s3:GetObject", <<>>, "ok")
          /\ frame' = [frame EXCEPT
                ![p].existing = s3obj.body,
                ![p].nextContent = NextContent(s3obj.body, frame[p].csvRows)]
          /\ pc' = [pc EXCEPT ![p] = "s3put"]
          /\ response' = response
       \/ \E e \in GetObjectErrors :
             /\ trace' = Log(p, "s3:GetObject", <<>>,
                             IF e = NoSuchKeyError THEN "NoSuchKey" ELSE "error")
             /\ IF IsNotFound(e)
                THEN /\ frame' = [frame EXCEPT
                           ![p].existing = <<>>,
                           ![p].nextContent = NextContent(<<>>, frame[p].csvRows)]
                     /\ pc' = [pc EXCEPT ![p] = "s3put"]
                     /\ response' = response
                ELSE /\ frame' = frame
                     /\ LedgerFailure(p)
    /\ UNCHANGED <<env, paramsLoaded, ssmHier, ssmFlat, directory, s3obj,
                   clock, invocations>>

\* Variant: the write is accepted only if the object is as it was read
PutIfUnchanged(p) ==
    s3obj.body = frame[p].existing
    /\ s3obj.exists = (frame[p].existing # <<>>)

\* lines 273-278: the PutObjectCommand carries no condition (no IfMatch,
\* no version), so the store accepts it whatever the object now holds
PutAccepted(p) == TRUE

\* the PutObject request succeeds
S3PutOk(p) ==
    /\ pc[p] = "s3put"
    /\ PutAccepted(p)
    /\ trace' = Log(p, "s3:PutObject", frame[p].nextContent, "ok")
    /\ s3obj' = [exists |-> TRUE, body |-> frame[p].nextContent]
    /\ Finish(p)
    /\ UNCHANGED <<env, paramsLoaded, frame, ssmHier, ssmFlat, directory,
                   clock, invocations>>

\* the PutObject request fails
S3PutFailed(p) ==
    /\ pc[p] = "s3put"
    /\ trace' = Log(p, "s3:PutObject", frame[p].nextContent, "error")
    /\ s3obj' = s3obj
    /\ LedgerFailure(p)
    /\ UNCHANGED <<env, paramsLoaded, frame, ssmHier, ssmFlat, directory,
                   clock, invocations>>

\* index.js:273-278: PutObject overwrites the object
S3PutObject(p) == S3PutOk(p) \/ S3PutFailed(p)

----------------------------------------------------------------------------
(* Specification: one process serving invocations one after another *)

Main == "p1"

\* freshly started processes, no invocation served yet
Fresh ==
    /\ paramsLoaded = [p \in Procs |-> FALSE]
    /\ trace = [p \in Procs |-> <<>>]
    /\ response = [p \in Procs |-> NoResponse]
    /\ directory = {AllUsers[i] : i \in 1..Len(AllUsers)}
    /\ clock = 0
    /\ invocations = 0

Init ==
    /\ Fresh
    /\ pc = [p \in Procs |-> "idle"]
    /\ frame = [p \in Procs |-> NoFrame]
    /\ \E e \in PresetEnvs : env = [p \in Procs |-> e]
    /\ ssmHier \in HierListings
    /\ ssmFlat \in FlatStores
    /\ s3obj = NoObject

Next ==
    \/ Invoke(Main)
    \/ LoadParamsIntoEnv(Main)
    \/ GetParametersByPath(Main)
    \/ GetParameters(Main)
    \/ ResolveConfig(Main)
    \/ GetMgmtToken(Main)
    \/ SearchByIdentity(Main)
    \/ SearchByMetadata(Main)
    \/ DeleteUser(Main)
    \/ S3GetObject(Main)
    \/ S3PutObject(Main)

Spec == Init /\ [][Next]_vars

----------------------------------------------------------------------------
(* Specification of two execution environments serving invocations at the   *)
(* same time.  Each has its own process.env and its own latch; the          *)
(* parameter store, the identity service and the ledger object are shared.  *)

\* the events delivered in this specification: an id in the path, no query
ConcEvents ==
    { [path |-> id, query |-> <<>>] : id \in EventIds \ {<<>>} }

InitConc ==
    /\ Fresh
    /\ pc = [p \in Procs |-> "idle"]
    /\ frame = [p \in Procs |-> NoFrame]
    /\ env = [p \in Procs |-> EmptyEnv]
    /\ ssmHier = HierListing
    /\ ssmFlat = FlatParams
    /\ s3obj = NoObject

NextConc ==
    \E p \in Procs :
       \/ /\ Invoke(p)
          /\ frame[p].event' \in ConcEvents
          /\ frame[p].functionName' = <<"f", "n">>
       \/ LoadParamsIntoEnv(p)
       \/ GetParametersByPath(p)
       \/ GetParameters(p)
       \/ ResolveConfig(p)
       \/ GetMgmtToken(p)
       \/ SearchByIdentity(p)
       \/ SearchByMetadata(p)
       \/ DeleteUser(p)
       \/ S3GetObject(p)
       \/ S3PutObject(p)

SpecConc == InitConc /\ [][NextConc]_vars

----------------------------------------------------------------------------
(* Specification of the ledger writer alone: appendRowsToCsvInS3 is entered *)
(* with some rows, against an object that anyone may have written           *)

Row1 == buildCsvRow(<<"a">>, U1, <<"f", "n">>, 1)
Row2 == buildCsvRow(<<"a">>, U2, <<"f", "n">>, 1)

LedgerRowSets == {<<Row1>>, <<Row2>>, <<Row1, Row2>>}

ContentPrefixes == {<<>>, <<BOM>>, <<" ">>, <<NL, NL>>, <<BOM, "\t">>}

ContentFirstLines ==
    { HeaderLine,
      <<"S">> \o Tail(HeaderLine),
      HeaderLine \o <<",", "x">>,
      SubSeq(HeaderLine, 1, Len(HeaderLine) - 1),
      <<"x">>,
      <<>> }

ContentRests == {<<>>, <<NL>>, <<NL, "r", NL>>}

LedgerObjects ==
    {NoObject} \cup
    { [exists |-> TRUE, body |-> a \o b \o c] :
        a \in ContentPrefixes, b \in ContentFirstLines, c \in ContentRests }

InitLedger ==
    /\ Fresh
    /\ env = [p \in Procs |-> [EmptyEnv EXCEPT !["S3_BUCKET"] = <<"e", "b">>]]
    /\ ssmHier = <<>>
    /\ ssmFlat = NoFlat
    /\ s3obj \in LedgerObjects
    /\ \E rows \in LedgerRowSets :
          /\ frame = [p \in Procs |->
                        IF p = Main
                        THEN [NoFrame EXCEPT !.csvRows = rows,
                                             !.bucket = <<"e", "b">>,
                                             !.key = DefaultS3Key]
                        ELSE NoFrame]
    /\ pc = [p \in Procs |-> IF p = Main THEN "s3get" ELSE "idle"]

NextLedger ==
    \/ S3GetObject(Main)
    \/ S3PutObject(Main)

SpecLedger == InitLedger /\ [][NextLedger]_vars

----------------------------------------------------------------------------
(* Reading the trace of an invocation *)

OpsOf(tr, ops) == SelectSeq(tr, LAMBDA r : r.op \in ops)

Ops(p, ops) == OpsOf(trace[p], ops)

SsmOps == {"ssm:GetParametersByPath", "ssm:GetParameters"}
S3Ops == {"s3:GetObject", "s3:PutObject"}

Searches(p) == Ops(p, {FirstQuery, SecondQuery})
Deletes(p) == Ops(p, {"auth0:delete"})

\* the invocation of process p has returned its response
Returned(p) == pc[p] = "idle" /\ response[p].statusCode # 0

Gets(p) == Ops(p, {"s3:GetObject"})
Puts(p) == Ops(p, {"s3:PutObject"})

IsPrefix(s, t) == Len(s) <= Len(t) /\ SubSeq(t, 1, Len(s)) = s

\* the rows of a batch, one after another
RECURSIVE Concat(_)
Concat(rows) == IF rows = <<>> THEN <<>> ELSE Head(rows) \o Concat(Tail(rows))

----------------------------------------------------------------------------
(* C1: when the read of the ledger object answers not-found, the writer     *)
(* goes on to its write instead of failing, issues one PutObject whose body *)
(* is the canonical header followed by the rows in the order given, and a   *)
(* successful write leaves exactly that content in the object.              *)
C1_AbsentObjectGetsHeaderAndRows ==
    (Gets(Main) # <<>> /\ Gets(Main)[1].res = "NoSuchKey") =>
        /\ pc[Main] = "s3put" \/ Len(Puts(Main)) = 1
        /\ Len(Gets(Main)) = 1 /\ Len(Puts(Main)) <= 1
        /\ \A i \in 1..Len(Puts(Main)) :
              /\ Puts(Main)[i].arg = CSV_HEADER \o Concat(frame[Main].csvRows)
              /\ Puts(Main)[i].res = "ok" =>
                    s3obj = [exists |-> TRUE,
                             body |-> CSV_HEADER \o Concat(frame[Main].csvRows)]

C1_Witness ==
    /\ Gets(Main) # <<>> /\ Gets(Main)[1].res = "NoSuchKey"
    /\ Len(Puts(Main)) = 1 /\ Puts(Main)[1].res = "ok"
    /\ frame[Main].csvRows = <<Row1, Row2>>
    /\ s3obj.body = CSV_HEADER \o Row1 \o Row2

(* C2: when the object read starts with the exact canonical header line,    *)
(* the body written is the content read, unchanged, followed by the new     *)
(* rows in order; no second header is added.                                *)
C2_HeaderNotDuplicated ==
    \A i \in 1..Len(Puts(Main)) :
        (Gets(Main)[1].res = "ok"
         /\ IsPrefix(HeaderLine, frame[Main].existing)) =>
            Puts(Main)[i].arg =
                frame[Main].existing \o Concat(frame[Main].csvRows)

C2_Witness ==
    /\ Len(Puts(Main)) = 1 /\ Puts(Main)[1].res = "ok"
    /\ Gets(Main)[1].res = "ok"
    /\ frame[Main].existing = CSV_HEADER \o <<"r", NL>>
    /\ s3obj.body = CSV_HEADER \o <<"r", NL>> \o Row1 \o Row2

\* the first line of a text, without one leading byte-order marker
FirstLineNoBom(s) == SplitFirst(IF s # <<>> /\ s[1] = BOM THEN Tail(s) ELSE s, NL)

(* C3 as stated: whenever the first line of the content read (lower-cased, *)
(* a leading byte-order marker ignored) differs from the header line, the   *)
(* body written is header + content read + new rows (the content read      *)
(* taken with or without its leading byte-order marker).                    *)
C3_AsStated ==
    \A i \in 1..Len(Puts(Main)) :
        (Gets(Main)[1].res = "ok"
         /\ ToLowerCase(FirstLineNoBom(frame[Main].existing)) # HeaderLine) =>
            LET old  == frame[Main].existing
                rows == Concat(frame[Main].csvRows)
            IN \/ Puts(Main)[i].arg = CSV_HEADER \o old \o rows
               \/ /\ old # <<>> /\ old[1] = BOM
                  /\ Puts(Main)[i].arg = CSV_HEADER \o Tail(old) \o rows

\* the text left when leading whitespace (U+FEFF included) is dropped
RECURSIVE DropLeadingSpace(_)
DropLeadingSpace(s) ==
    IF s = <<>> THEN s
    ELSE IF s[1] \in {" ", "\t", NL, "\r", BOM} THEN DropLeadingSpace(Tail(s))
    ELSE s

BeginsWithHeaderText(s) ==
    LET t == DropLeadingSpace(s)
    IN /\ Len(t) >= Len(HeaderLine)
       /\ \A i \in 1..Len(HeaderLine) : LowerChar(t[i]) = HeaderLine[i]

(* C3 amended: content that, once leading whitespace is dropped and case    *)
(* is ignored, does not begin with the header line text gets header +       *)
(* content without one leading byte-order marker + rows; content that does  *)
(* begin with it (extended first line, leading blanks) gets content + rows. *)
C3_HeaderAddedUnlessTextBeginsWithIt ==
    \A i \in 1..Len(Puts(Main)) :
        Gets(Main)[1].res = "ok" =>
            LET old  == frame[Main].existing
                rows == Concat(frame[Main].csvRows)
            IN Puts(Main)[i].arg =
                  IF BeginsWithHeaderText(old)
                  THEN old \o rows
                  ELSE CSV_HEADER
                       \o (IF old # <<>> /\ old[1] = BOM THEN Tail(old) ELSE old)
                       \o rows

C3_Witness ==
    /\ Len(Puts(Main)) = 1 /\ Puts(Main)[1].res = "ok"
    /\ Gets(Main)[1].res = "ok"
    /\ frame[Main].existing = <<BOM>> \o <<"x">> \o <<NL, "r", NL>>
    /\ s3obj.body = CSV_HEADER \o <<"x", NL, "r", NL>> \o Row1

----------------------------------------------------------------------------
\* s.split("\n")
RECURSIVE SplitLines(_)
SplitLines(s) ==
    LET first == SplitFirst(s, NL)
    IN IF Len(first) = Len(s) THEN <<s>>
       ELSE <<first>> \o SplitLines(SubSeq(s, Len(first) + 2, Len(s)))

HeaderLineCount(body) ==
    Cardinality({i \in 1..Len(SplitLines(body)) : SplitLines(body)[i] = HeaderLine})

(* C4: with invocations served one after another from an absent object,    *)
(* every step that changes the ledger object leaves a content whose first   *)
(* line is the canonical header, in which the header line occurs exactly    *)
(* once, and of which the content stored before is a prefix.                *)
C4_LedgerOnlyGrows ==
    [][ s3obj' # s3obj =>
          /\ s3obj'.exists
          /\ SplitLines(s3obj'.body)[1] = HeaderLine
          /\ HeaderLineCount(s3obj'.body) = 1
          /\ IsPrefix(s3obj.body, s3obj'.body)
          /\ Len(s3obj'.body) > Len(s3obj.body) ]_vars

C4_Witness ==
    /\ invocations = 2
    /\ Returned(Main)
    /\ Puts(Main) # <<>> /\ Puts(Main)[1].res = "ok"
    /\ IsPrefix(CSV_HEADER, frame[Main].existing)
    /\ Len(frame[Main].existing) > Len(CSV_HEADER)
    /\ s3obj.body = frame[Main].existing \o Concat(frame[Main].csvRows)

\* index of the first parameter of a page whose name ends in segment k (0: none)
FirstNamed(page, k) ==
    IF \E j \in 1..Len(page) : page[j].Name[Len(page[j].Name)] = k
    THEN CHOOSE j \in 1..Len(page) :
            /\ page[j].Name[Len(page[j].Name)] = k
            /\ \A h \in 1..(j - 1) : page[h].Name[Len(page[h].Name)] # k
    ELSE 0

(* C5: no step changes a recognized key that already has a value, whether   *)
(* the value came from the environment, from an earlier page or from the    *)
(* hierarchical phase; and when a page of the hierarchical listing sets a   *)
(* key, the value is that of the first parameter of the page with that      *)
(* short name.                                                              *)
C5_SetKeysAreKept ==
    [][ \A k \in ExpectedKeySet :
          /\ Truthy(env[Main][k]) => env'[Main][k] = env[Main][k]
          /\ (~Truthy(env[Main][k]) /\ Truthy(env'[Main][k])
              /\ pc[Main] = "ssm_path") =>
                LET req  == trace'[Main][Len(trace'[Main])]
                    page == PathPage(req.arg, frame[Main].nextToken).Parameters
                IN /\ FirstNamed(page, k) # 0
                   /\ env'[Main][k] = page[FirstNamed(page, k)].Value ]_vars

C5_Witness ==
    /\ paramsLoaded[Main]
    /\ ssmHier = HierListing /\ ssmFlat = FlatParams
    /\ env[Main]["AUTH0_DOMAIN"] = <<"e", "d">>
    /\ env[Main]["AUTH0_CLIENT_ID"] = <<"h", "c">>
    /\ env[Main]["AUTH0_CLIENT_SECRET"] = <<"h", "s">>
    /\ env[Main]["SSOID"] = <<"b">>
    /\ Len(Ops(Main, {"ssm:GetParametersByPath"})) = 2
    /\ Len(Ops(Main, {"ssm:GetParameters"})) = 1

(* C6: once the latch is set it stays set, and from then on no step issues  *)
(* a parameter-store request or changes a setting, in this invocation or a  *)
(* later one of the same process.                                           *)
C6_LoadedOnce ==
    [][ paramsLoaded[Main] =>
          /\ paramsLoaded'[Main]
          /\ env'[Main] = env[Main]
          /\ \/ OpsOf(trace'[Main], SsmOps) = OpsOf(trace[Main], SsmOps)
             \/ OpsOf(trace'[Main], SsmOps) = <<>> ]_vars

C6_Witness ==
    /\ invocations = 2
    /\ paramsLoaded[Main]
    /\ Returned(Main)
    /\ response[Main].statusCode = 200
    /\ Ops(Main, SsmOps) = <<>>
    /\ ssmHier = HierListing

\* the result set the deletions work on: the first non-empty one
Winning(s) ==
    IF s # <<>> /\ s[1].out # <<>> THEN s[1].out
    ELSE IF Len(s) = 2 THEN s[2].out
    ELSE <<>>

(* C7: the identity-link query is the first search of an invocation, the    *)
(* metadata query follows exactly when the first returned nothing, no       *)
(* search follows a deletion, and the deletions go, in order, to the        *)
(* accounts of the first non-empty result and to no other account.          *)
C7_SearchOrder ==
    LET s == Searches(Main)
        d == Deletes(Main)
        t == trace[Main]
    IN /\ Len(s) <= 2
       /\ Len(s) >= 1 => s[1].op = FirstQuery
       /\ Len(s) = 2 => s[2].op = SecondQuery /\ s[1].out = <<>>
       /\ (Len(s) = 1 /\ s[1].out = <<>>) => pc[Main] = "search2"
       /\ (Len(s) = 1 /\ s[1].out # <<>>) => pc[Main] # "search2"
       /\ \A i, j \in 1..Len(t) :
             (i < j /\ t[i].op = "auth0:delete") =>
                 t[j].op \notin {FirstQuery, SecondQuery}
       /\ Len(d) <= Len(Winning(s))
       /\ \A i \in 1..Len(d) : d[i].arg = Winning(s)[i]
       /\ (Returned(Main) /\ response[Main].statusCode = 200) =>
             Len(d) = Len(Winning(s))

C7_Witness ==
    /\ Returned(Main)
    /\ Len(Searches(Main)) = 1
    /\ Searches(Main)[1].out = <<U1.user_id, U2.user_id>>
    /\ Len(Deletes(Main)) = 2
    /\ U3 \in directory /\ U3.meta = Searches(Main)[1].arg

(* C8: an invocation whose two searches both returned nothing ends with     *)
(* status 200 and body {message: "Cannot find user", ssoid: the id          *)
(* searched, results: []}, having issued no delete request and no           *)
(* object-store request.                                                    *)
C8_NoMatch ==
    LET s == Searches(Main)
    IN (Len(s) = 2 /\ s[1].out = <<>> /\ s[2].out = <<>>) =>
          /\ Returned(Main)
          /\ response[Main].statusCode = 200
          /\ DOMAIN response[Main].body = {"message", "ssoid", "results"}
          /\ response[Main].body.message = "Cannot find user"
          /\ response[Main].body.ssoid = s[1].arg
          /\ response[Main].body.ssoid = s[2].arg
          /\ response[Main].body.results = <<>>
          /\ Deletes(Main) = <<>>
          /\ Ops(Main, S3Ops) = <<>>

C8_Witness ==
    /\ Returned(Main)
    /\ Len(Searches(Main)) = 2
    /\ Searches(Main)[1].res = "empty" /\ Searches(Main)[2].res = "empty"
    /\ response[Main].body.ssoid = <<"b">>
    /\ response[Main].body.results = <<>>

\* the account with a given id
UserById(id) == CHOOSE u \in {AllUsers[i] : i \in 1..Len(AllUsers)} : u.user_id = id

IsSuffix(s, t) == Len(s) <= Len(t) /\ SubSeq(t, Len(t) - Len(s) + 1, Len(t)) = s

(* C9: whatever deletions succeed or fail, a delete is attempted for every  *)
(* matched account before the ledger writer or the response is reached,     *)
(* the result list has one entry per attempt in match order (deleted=true   *)
(* without error, or deleted=false with an error message), and the rows     *)
(* built and handed to the ledger writer are those of the successfully      *)
(* deleted accounts, in order, and no other.                                *)
C9_PerAccountIsolation ==
    LET d    == Deletes(Main)
        f    == frame[Main]
        win  == Winning(Searches(Main))
        done == SelectSeq(d, LAMBDA r : r.res = "ok")
    IN d # <<>> =>
        /\ Len(f.results) = Len(d)
        /\ \A i \in 1..Len(d) :
              /\ d[i].arg = win[i]
              /\ f.results[i].user_id = d[i].arg
              /\ f.results[i].deleted = (d[i].res = "ok")
              /\ ("error" \in DOMAIN f.results[i]) = (d[i].res # "ok")
        /\ Len(f.csvRows) = Len(done)
        /\ \A j \in 1..Len(done) :
              f.csvRows[j] =
                  buildCsvRow(f.ssoid, UserById(done[j].arg), f.deletedBy, clock)
        /\ (pc[Main] \in {"s3get", "s3put"} \/ Returned(Main)) =>
              Len(d) = Len(win)
        /\ \A i \in 1..Len(Puts(Main)) :
              IsSuffix(Concat(f.csvRows), Puts(Main)[i].arg)
        /\ Returned(Main) =>
              /\ response[Main].body.results = f.results
              /\ response[Main].body.count = Len(win)

C9_Witness ==
    /\ Len(Deletes(Main)) = 2
    /\ Deletes(Main)[1].res = "error" /\ Deletes(Main)[2].res = "ok"
    /\ Len(frame[Main].results) = 2
    /\ frame[Main].csvRows =
          <<buildCsvRow(<<"a">>, U2, frame[Main].deletedBy, clock)>>
    /\ Len(Puts(Main)) = 1 /\ Puts(Main)[1].res = "ok"
    /\ Returned(Main)

(* C10: while no bucket is configured no object-store request is issued,    *)
(* and an invocation that went through all its deletions, at least one of   *)
(* them successful, has returned status 200 with the per-account results.   *)
C10_NoBucketNoWrite ==
    LET d   == Deletes(Main)
        win == Winning(Searches(Main))
    IN ~Truthy(env[Main]["S3_BUCKET"]) =>
        /\ Ops(Main, S3Ops) = <<>>
        /\ pc[Main] \notin {"s3get", "s3put"}
        /\ (Len(d) = Len(win) /\ \E i \in 1..Len(d) : d[i].res = "ok") =>
              /\ Returned(Main)
              /\ response[Main].statusCode = 200
              /\ response[Main].body.message = "Delete attempt complete"
              /\ Len(response[Main].body.results) = Len(d)
              /\ \A i \in 1..Len(d) :
                    /\ response[Main].body.results[i].user_id = d[i].arg
                    /\ response[Main].body.results[i].deleted = (d[i].res = "ok")

C10_Witness ==
    /\ ~Truthy(env[Main]["S3_BUCKET"])
    /\ Returned(Main)
    /\ response[Main].statusCode = 200
    /\ Len(Deletes(Main)) = 2
    /\ Deletes(Main)[1].res = "ok" /\ Deletes(Main)[2].res = "error"
    /\ Ops(Main, S3Ops) = <<>>

----------------------------------------------------------------------------
(* C11: when a request of the ledger writer fails, on the read or on the    *)
(* write, the invocation has returned status 200 with message "Delete       *)
(* attempt complete" and one result entry for every deletion attempted,     *)
(* at least one of them successful; it has not returned status 500.         *)
C11_LedgerFailureSwallowed ==
    LET d == Deletes(Main)
        w == Ops(Main, S3Ops)
    IN (\E i \in 1..Len(w) : w[i].res = "error") =>
          /\ Returned(Main)
          /\ response[Main].statusCode = 200
          /\ response[Main].body.message = "Delete attempt complete"
          /\ response[Main].body.count = Len(d)
          /\ Len(response[Main].body.results) = Len(d)
          /\ \A i \in 1..Len(d) :
                /\ response[Main].body.results[i].user_id = d[i].arg
                /\ response[Main].body.results[i].deleted = (d[i].res = "ok")
          /\ \E i \in 1..Len(d) : d[i].res = "ok"

C11_Witness ==
    /\ Returned(Main)
    /\ Len(Gets(Main)) = 1 /\ Gets(Main)[1].res = "error"
    /\ Puts(Main) = <<>>
    /\ response[Main].statusCode = 200
    /\ Len(response[Main].body.results) = 2

\* the control points of a handler invocation
HandlerPoints ==
    {"load", "ssm_path", "ssm_flat", "config", "token", "search1", "search2",
     "delete", "s3get", "s3put"}

\* a step of the running invocation of process p
HandlerStep(p) ==
    \/ LoadParamsIntoEnv(p) \/ GetParametersByPath(p) \/ GetParameters(p)
    \/ ResolveConfig(p) \/ GetMgmtToken(p) \/ SearchByIdentity(p)
    \/ SearchByMetadata(p) \/ DeleteUser(p) \/ S3GetObject(p) \/ S3PutObject(p)

\* how far an invocation has come: its stage, then its position in the
\* stage's loop
Stage(point) ==
    CASE point = "load" -> 1 [] point = "ssm_path" -> 2 [] point = "ssm_flat" -> 3
      [] point = "config" -> 4 [] point = "token" -> 5 [] point = "search1" -> 6
      [] point = "search2" -> 7 [] point = "delete" -> 8 [] point = "s3get" -> 9
      [] point = "s3put" -> 10 [] OTHER -> 11

IsEnvelope(r) ==
    /\ DOMAIN r = {"statusCode", "headers", "body"}
    /\ r.statusCode \in {200, 500}
    /\ r.headers = [content_type |-> "application/json"]
    /\ DOMAIN r.body # {}

(* C12: an invocation is always either at a point of the handler from       *)
(* which a step is possible or has returned an envelope (status 200 or      *)
(* 500, JSON content type, a body); no failure of a service leaves it       *)
(* anywhere else; and every step moves it strictly forward, so it returns   *)
(* after finitely many steps.                                               *)
C12_AlwaysAnEnvelope ==
    /\ [](/\ pc[Main] \in HandlerPoints \cup {"idle"}
          /\ pc[Main] \in HandlerPoints =>
                (ENABLED HandlerStep(Main)) /\ response[Main] = NoResponse
          /\ (pc[Main] = "idle" /\ invocations > 0) => IsEnvelope(response[Main]))
    /\ [][ pc[Main] \in HandlerPoints =>
             \/ Stage(pc'[Main]) > Stage(pc[Main])
             \/ /\ pc'[Main] = pc[Main]
                /\ \/ frame'[Main].nextToken > frame[Main].nextToken
                   \/ frame'[Main].i > frame[Main].i ]_vars

C12_Witness ==
    /\ Returned(Main)
    /\ response[Main].statusCode = 500
    /\ Len(Ops(Main, {"ssm:GetParametersByPath"})) = 2
    /\ trace[Main][Len(trace[Main])].res = "error"

(* C13 as stated: every body has message; every status-200 body also has    *)
(* ssoid, count and results; every status-500 body has error.               *)
C13_AsStated ==
    Returned(Main) =>
        /\ "message" \in DOMAIN response[Main].body
        /\ response[Main].statusCode = 200 =>
              {"ssoid", "count", "results"} \subseteq DOMAIN response[Main].body
        /\ response[Main].statusCode = 500 =>
              "error" \in DOMAIN response[Main].body

(* C13 amended: every status-200 body has message, ssoid and results; the   *)
(* "Delete attempt complete" body also has count, the no-match body has     *)
(* not; a status-500 body has error and nothing else (no message).          *)
C13_BodyFields ==
    Returned(Main) =>
        LET b == response[Main].body
        IN /\ response[Main].statusCode \in {200, 500}
           /\ response[Main].statusCode = 200 =>
                 /\ b.message \in {"Cannot find user", "Delete attempt complete"}
                 /\ DOMAIN b = IF b.message = "Delete attempt complete"
                               THEN {"message", "ssoid", "count", "results"}
                               ELSE {"message", "ssoid", "results"}
           /\ response[Main].statusCode = 500 => DOMAIN b = {"error"}

C13_Witness ==
    /\ Returned(Main)
    /\ response[Main].statusCode = 200
    /\ DOMAIN response[Main].body = {"message", "ssoid", "results"}
    /\ invocations = 2

\* the requests an invocation makes once it holds a token
AfterTokenOps == {FirstQuery, SecondQuery, "auth0:delete"} \cup S3Ops

\* the first of the three required settings that has no value (<<>>: none)
FirstUnset(e) ==
    IF e["AUTH0_DOMAIN"] = <<>> THEN <<"AUTH0_DOMAIN">>
    ELSE IF e["AUTH0_CLIENT_ID"] = <<>> THEN <<"AUTH0_CLIENT_ID">>
    ELSE IF e["AUTH0_CLIENT_SECRET"] = <<>> THEN <<"AUTH0_CLIENT_SECRET">>
    ELSE <<>>

(* C14: while a required identity-service setting is missing the           *)
(* invocation issues no token, search, delete or object-store request, and  *)
(* once settings resolution is over it has returned status 500 naming the   *)
(* missing setting; and when the token request fails the invocation has     *)
(* returned status 500 with the token error, having issued no search,       *)
(* delete or object-store request.                                          *)
C14_ConfigAndTokenFailuresAreTerminal ==
    LET t == trace[Main]
    IN /\ FirstUnset(env[Main]) # <<>> =>
             /\ Ops(Main, {"auth0:token"} \cup AfterTokenOps) = <<>>
             /\ pc[Main] \in {"idle", "load", "ssm_path", "ssm_flat", "config"}
             /\ (Returned(Main) /\ \A i \in 1..Len(t) : t[i].res # "error") =>
                   /\ response[Main].statusCode = 500
                   /\ response[Main].body.error =
                         <<"Missing", FirstUnset(env[Main])[1]>>
       /\ (\E i \in 1..Len(t) : t[i].op = "auth0:token" /\ t[i].res = "error") =>
             /\ Returned(Main)
             /\ response[Main].statusCode = 500
             /\ response[Main].body.error = "Token HTTP error"
             /\ Ops(Main, AfterTokenOps) = <<>>

C14_Witness ==
    /\ Returned(Main)
    /\ env[Main]["AUTH0_DOMAIN"] # <<>>
    /\ env[Main]["AUTH0_CLIENT_ID"] = <<>>
    /\ Len(trace[Main]) = 2
    /\ \A i \in 1..2 : trace[Main][i].res = "ok"
    /\ response[Main].statusCode = 500
    /\ response[Main].body.error = <<"Missing", "AUTH0_CLIENT_ID">>

\* the id an event and the settings determine
TargetId(event, e) ==
    IF event.path # <<>> THEN event.path
    ELSE IF event.query # <<>> THEN event.query
    ELSE IF e["SSOID"] # <<>> THEN e["SSOID"]
    ELSE <<"REPLACE_WITH_SSOID">>

(* C15: the id of every search, of the response and of every ledger row is  *)
(* the event's path parameter, else its query parameter, else the SSOID     *)
(* setting, else the placeholder; resolving it raises nothing (the          *)
(* invocation goes on to its first search); and no step outside the         *)
(* parameter loader changes the settings.                                   *)
C15_TargetIdPriority ==
    /\ [](LET id == TargetId(frame[Main].event, env[Main])
              s  == Searches(Main)
              r  == frame[Main].csvRows
              tk == Ops(Main, {"auth0:token"})
          IN /\ \A i \in 1..Len(s) : s[i].arg = id
             /\ \A j \in 1..Len(r) : IsPrefix(id \o <<",">>, r[j])
             /\ (Returned(Main) /\ response[Main].statusCode = 200) =>
                   response[Main].body.ssoid = id
             /\ (tk # <<>> /\ tk[1].res = "ok") =>
                   (s # <<>> \/ pc[Main] = "search1"))
    /\ [][ pc[Main] \notin {"ssm_path", "ssm_flat"} => env' = env ]_vars

C15_Witness ==
    /\ Returned(Main)
    /\ frame[Main].event = [path |-> <<>>, query |-> <<"a">>]
    /\ env[Main]["SSOID"] = <<"b">>
    /\ response[Main].statusCode = 200
    /\ response[Main].body.ssoid = <<"a">>
    /\ frame[Main].csvRows # <<>>
    /\ invocations = 1

\* the last request of a trace has the given operation and outcome
LastIs(tr, ops, res) ==
    tr # <<>> /\ tr[Len(tr)].op \in ops /\ tr[Len(tr)].res = res

(* C17: the deletions of an invocation appear one after another in match    *)
(* order, each resolved before the next is issued and all of them before    *)
(* any object-store request; the ledger writer runs at most once (at most   *)
(* one read and one write), only after a deletion was attempted for every   *)
(* matched account and only with at least one row; and what it writes ends  *)
(* with the rows of the successfully deleted accounts in match order.       *)
C17_SequentialDeletesThenOneWrite ==
    LET t    == trace[Main]
        f    == frame[Main]
        d    == Deletes(Main)
        win  == Winning(Searches(Main))
        done == SelectSeq(d, LAMBDA r : r.res = "ok")
    IN /\ Len(d) <= Len(win)
       /\ \A i \in 1..Len(d) : d[i].arg = win[i] /\ d[i].res \in {"ok", "error"}
       /\ \A i \in 1..Len(t) : \A j \in 1..Len(t) :
             (i < j /\ t[i].op \in S3Ops) => t[j].op \in S3Ops
       /\ Len(Gets(Main)) <= 1
       /\ Len(Puts(Main)) <= 1
       /\ Puts(Main) # <<>> => Len(Gets(Main)) = 1
       /\ (pc[Main] \in {"s3get", "s3put"} \/ Ops(Main, S3Ops) # <<>>) =>
             /\ Len(d) = Len(win)
             /\ done # <<>>
             /\ f.csvRows =
                   [j \in 1..Len(done) |->
                       buildCsvRow(f.ssoid, UserById(done[j].arg), f.deletedBy, clock)]
       /\ \A i \in 1..Len(Puts(Main)) :
             IsSuffix(Concat(f.csvRows), Puts(Main)[i].arg)

C17_Witness ==
    /\ Returned(Main)
    /\ Len(Deletes(Main)) = 2
    /\ Deletes(Main)[1].res = "ok" /\ Deletes(Main)[2].res = "ok"
    /\ Len(frame[Main].csvRows) = 2
    /\ Len(Gets(Main)) = 1
    /\ Len(Puts(Main)) = 1 /\ Puts(Main)[1].res = "ok"
    /\ s3obj.body = CSV_HEADER \o Concat(frame[Main].csvRows)

(* C18: a read of the ledger object that fails with anything but not-found  *)
(* ends the ledger writer there: the step leaves the stored object as it    *)
(* was and does not go on to the write, and no write request is ever        *)
(* issued after it.                                                         *)
C18_ReadFailureWritesNothing ==
    /\ [](LET g == Gets(Main)
          IN (g # <<>> /\ g[1].res = "error") =>
                /\ Puts(Main) = <<>>
                /\ pc[Main] = "idle"
                /\ frame[Main].nextContent = <<>>)
    /\ [][ LastIs(trace[Main]', {"s3:GetObject"}, "error") =>
              /\ s3obj' = s3obj
              /\ pc[Main]' # "s3put" ]_vars

C18_Witness ==
    /\ s3obj.exists
    /\ s3obj.body # <<>>
    /\ Len(Gets(Main)) = 1
    /\ Gets(Main)[1].res = "error"
    /\ Puts(Main) = <<>>
    /\ pc[Main] = "idle"

(* C19: a failed search answers no account, like an empty one: after a      *)
(* failed or empty identity-link query the metadata query is the next       *)
(* request, after a failed or empty metadata query the invocation has       *)
(* returned the status-200 no-match response, and an invocation in which a  *)
(* search failed never returns status 500.                                  *)
C19_FailedSearchIsEmptySearch ==
    LET s == Searches(Main)
    IN /\ \A i \in 1..Len(s) : s[i].res = "error" => s[i].out = <<>>
       /\ (s # <<>> /\ s[1].res \in {"error", "empty"}) =>
             \/ pc[Main] = "search2" /\ Len(s) = 1
             \/ Len(s) = 2 /\ s[2].op = SecondQuery /\ s[2].arg = s[1].arg
       /\ (Len(s) = 2 /\ s[2].res \in {"error", "empty"}) =>
             /\ Returned(Main)
             /\ response[Main] = NoMatchResponse(s[1].arg)
             /\ Deletes(Main) = <<>>
       /\ ((\E i \in 1..Len(s) : s[i].res = "error") /\ Returned(Main)) =>
             response[Main].statusCode = 200

C19_Witness ==
    /\ Len(Searches(Main)) = 2
    /\ Searches(Main)[1].res = "error"
    /\ Searches(Main)[2].res = "error"
    /\ Returned(Main)
    /\ response[Main].statusCode = 200
    /\ response[Main].body.message = "Cannot find user"

(* C20: an invocation in which a parameter-store request failed has         *)
(* returned status 500 with the latch unset; the failing step changes no    *)
(* setting; an invocation that starts with the latch unset after an         *)
(* earlier one issues a parameter-store request next; and a lookup never    *)
(* changes a setting that already has a value.                              *)
C20_LatchOnlyAfterBothPhases ==
    /\ [](LET t == Ops(Main, SsmOps)
          IN (\E i \in 1..Len(t) : t[i].res = "error") =>
                /\ t[Len(t)].res = "error"
                /\ Returned(Main)
                /\ response[Main] = ErrorResponse("ssm error")
                /\ ~paramsLoaded[Main]
                /\ Ops(Main, {"auth0:token"} \cup AfterTokenOps) = <<>>)
    /\ [][ /\ LastIs(trace[Main]', SsmOps, "error") => env' = env
           /\ (pc[Main] = "load" /\ ~paramsLoaded[Main] /\ invocations >= 2) =>
                 pc[Main]' \in {"ssm_path", "ssm_flat"}
           /\ \A k \in EnvKeys :
                 env[Main][k] # <<>> => env[Main][k]' = env[Main][k] ]_vars

C20_Witness ==
    /\ invocations = 2
    /\ Returned(Main)
    /\ response[Main].statusCode = 500
    /\ Len(Ops(Main, SsmOps)) = 2
    /\ Ops(Main, SsmOps)[1].res = "ok"
    /\ Ops(Main, SsmOps)[2].res = "error"
    /\ env[Main]["AUTH0_CLIENT_ID"] # <<>>
    /\ ~paramsLoaded[Main]

\* the accounts an invocation deleted
Deleted(p) ==
    { Deletes(p)[i].arg : i \in { j \in 1..Len(Deletes(p)) : Deletes(p)[j].res = "ok" } }

(* C16: nothing guards the ledger write against a concurrent writer: an     *)
(* invocation that is about to write holds the content it computed from     *)
(* the object as it read it, its write can succeed whatever the object      *)
(* holds by now, and a successful write makes the object exactly that       *)
(* content.                                                                 *)
C16_WriteIsUnconditional ==
    /\ [](\A p \in Procs :
             pc[p] = "s3put" =>
                /\ frame[p].nextContent =
                      NextContent(frame[p].existing, frame[p].csvRows)
                /\ ENABLED S3PutOk(p))
    /\ [][ \A p \in Procs :
              (trace[p]' # trace[p] /\ LastIs(trace[p]', {"s3:PutObject"}, "ok")) =>
                 s3obj' = [exists |-> TRUE, body |-> frame[p].nextContent] ]_vars

\* the lost update: both invocations read the absent object, both wrote and
\* returned 200, and the object holds the rows of one of them only
C16_Witness ==
    \E p \in Procs : \E q \in Procs \ {p} :
       /\ Returned(p) /\ response[p].statusCode = 200
       /\ Returned(q) /\ response[q].statusCode = 200
       /\ Len(Gets(p)) = 1 /\ Gets(p)[1].res = "NoSuchKey"
       /\ Len(Gets(q)) = 1 /\ Gets(q)[1].res = "NoSuchKey"
       /\ Len(Puts(p)) = 1 /\ Puts(p)[1].res = "ok"
       /\ Len(Puts(q)) = 1 /\ Puts(q)[1].res = "ok"
       /\ Deleted(p) # {}
       /\ Deleted(p) \cap Deleted(q) = {}
       /\ \A u \in Deleted(p) : u \notin directory
       /\ s3obj.body = CSV_HEADER \o Concat(frame[q].csvRows)
       /\ Len(frame[q].csvRows) = Cardinality(Deleted(q))

====
